---------------------------- MODULE Spec2Model ----------------------------
(***************************************************************************)
(* Model of server.py: a single-threaded HTTP server (HTTPServer with      *)
(* Handler) that turns a TV on/off/queries it through the cec-client       *)
(* subprocess and sends a Wake-on-LAN magic packet.                        *)
(*                                                                         *)
(* Python str values are TLA+ strings; bytes values are sequences of       *)
(* numbers in 0..255.                                                      *)
(***************************************************************************)
EXTENDS Integers, Sequences, FiniteSets, TLC

VARIABLES
    pc,         \* where the (single) request-handling thread is
    req,        \* the request being handled: [method, path, body]
    handler,    \* the function ROUTES.get returned ("none" when None)
    mac,        \* send_wol's parameter mac
    packet,     \* send_wol's local packet (<<>> before it is built)
    sock,       \* send_wol's socket: "none", "open", "closed"
    sent,       \* datagrams handed to the network during this call
    stdin,      \* the text subprocess.run feeds the child
    launch,     \* how subprocess.run's launch went
    child,      \* the cec-client process: "none", "running", "exited", "killed"
    launches,   \* subprocess.run calls made for this request
    rc,         \* the child's return code (-1: none)
    stdout,     \* the child's captured stdout (raw)
    cecResult,  \* what cec_send returned: <<ok, output>>
    result,     \* what the route's function returned: <<ok, message>>
    responses,  \* responses written to the client for this request
    crashed     \* an exception escaped the handler

vars == <<pc, req, handler, mac, packet, sock, sent, stdin, launch, child, launches,
          rc, stdout, cecResult, result, responses, crashed>>

-----------------------------------------------------------------------------
(* Bounds of the model *)

\* most octets a generated MAC string has (6 is the valid count)
MaxOctets == 7

\* most lines of a generated cec-client output
MaxLines == 2

-----------------------------------------------------------------------------
(* Configuration *)

PC_MAC == "AA:BB:CC:DD:EE:FF"

PC_BROADCAST == "255.255.255.255"

WOL_PORT == 9

CEC_DEVICE == "0"

-----------------------------------------------------------------------------
(* Python str and bytes operations the program uses *)

CharAt(s, i) == SubSeq(s, i, i)

\* sub in s
Contains(s, sub) ==
    \E i \in 1..(Len(s) - Len(sub) + 1) : SubSeq(s, i, i + Len(sub) - 1) = sub

\* str.replace(c, "") for a one-character c (the string is halved to keep
\* the recursion shallow, here and below)
RECURSIVE Remove(_, _)
Remove(s, c) ==
    IF Len(s) = 0 THEN ""
    ELSE IF Len(s) = 1 THEN (IF s = c THEN "" ELSE s)
    ELSE LET h == Len(s) \div 2
         IN  Remove(SubSeq(s, 1, h), c) \o Remove(SubSeq(s, h + 1, Len(s)), c)

AsciiWhitespace == {" ", "\t", "\n", "\r", "\f"}

HexDigits == "0123456789abcdefABCDEF"

IsHexDigit(c) == \E i \in 1..Len(HexDigits) : CharAt(HexDigits, i) = c

HexVal(c) ==
    LET i == CHOOSE k \in 1..Len(HexDigits) : CharAt(HexDigits, k) = c
    IN  IF i <= 16 THEN i - 1 ELSE i - 7

\* bytes.fromhex(s): whitespace between byte pairs is skipped; every byte is
\* two adjacent hex digits; anything else raises ValueError.
RECURSIVE FromHex(_)
FromHex(s) ==
    IF Len(s) = 0 THEN [ok |-> TRUE, bytes |-> <<>>]
    ELSE IF CharAt(s, 1) \in AsciiWhitespace THEN FromHex(SubSeq(s, 2, Len(s)))
    ELSE IF Len(s) >= 2 /\ IsHexDigit(CharAt(s, 1)) /\ IsHexDigit(CharAt(s, 2))
         THEN LET rest == FromHex(SubSeq(s, 3, Len(s)))
                  b == 16 * HexVal(CharAt(s, 1)) + HexVal(CharAt(s, 2))
              IN  IF rest.ok THEN [ok |-> TRUE, bytes |-> <<b>> \o rest.bytes]
                  ELSE rest
    ELSE [ok |-> FALSE, bytes |-> <<>>]

ValueErrorText == "non-hexadecimal number found in fromhex() arg"

\* bytes * n
RECURSIVE Repeat(_, _)
Repeat(b, n) == IF n = 0 THEN <<>> ELSE b \o Repeat(b, n - 1)


Whitespace == {" ", "\t", "\n", "\r", "\f"}

\* str.strip()
RECURSIVE LStrip(_)
LStrip(s) ==
    IF Len(s) > 0 /\ CharAt(s, 1) \in Whitespace
    THEN LStrip(SubSeq(s, 2, Len(s))) ELSE s

RECURSIVE RStrip(_)
RStrip(s) ==
    IF Len(s) > 0 /\ CharAt(s, Len(s)) \in Whitespace
    THEN RStrip(SubSeq(s, 1, Len(s) - 1)) ELSE s

Strip(s) == LStrip(RStrip(s))

UpperLetters == "ABCDEFGHIJKLMNOPQRSTUVWXYZ"

LowerLetters == "abcdefghijklmnopqrstuvwxyz"

LowerChar(c) ==
    IF \E i \in 1..26 : CharAt(UpperLetters, i) = c
    THEN CharAt(LowerLetters, CHOOSE i \in 1..26 : CharAt(UpperLetters, i) = c)
    ELSE c

\* str.lower()
RECURSIVE Lower(_)
Lower(s) ==
    IF Len(s) = 0 THEN ""
    ELSE IF Len(s) = 1 THEN LowerChar(s)
    ELSE LET h == Len(s) \div 2
         IN  Lower(SubSeq(s, 1, h)) \o Lower(SubSeq(s, h + 1, Len(s)))

\* str.splitlines(): a line ends at "\n", "\r" or "\r\n"; the breaks are not
\* kept and a final break opens no empty line.
RECURSIVE SplitLines(_)
SplitLines(s) ==
    LET breaks == {i \in 1..Len(s) : CharAt(s, i) \in {"\n", "\r"}}
    IN  IF Len(s) = 0 THEN <<>>
        ELSE IF breaks = {} THEN <<s>>
        ELSE LET b == CHOOSE i \in breaks : \A j \in breaks : i <= j
                 w == IF b < Len(s) /\ SubSeq(s, b, b + 1) = "\r\n" THEN 2 ELSE 1
             IN  <<SubSeq(s, 1, b - 1)>> \o SplitLines(SubSeq(s, b + w, Len(s)))

\* str.split(sep): the pieces between the occurrences of sep, found left to
\* right without overlap.
RECURSIVE Split(_, _)
Split(s, sep) ==
    LET found == {i \in 1..(Len(s) - Len(sep) + 1) :
                     SubSeq(s, i, i + Len(sep) - 1) = sep}
    IN  IF found = {} THEN <<s>>
        ELSE LET f == CHOOSE i \in found : \A j \in found : i <= j
             IN  <<SubSeq(s, 1, f - 1)>>
                 \o Split(SubSeq(s, f + Len(sep), Len(s)), sep)

\* seq[-1]
Last(seq) == seq[Len(seq)]

\* json.dumps of a str: quoted, with the characters JSON cannot hold escaped
JsonEscape(c) ==
    CASE c = "\"" -> "\\\""
      [] c = "\\" -> "\\\\"
      [] c = "\n" -> "\\n"
      [] c = "\r" -> "\\r"
      [] c = "\t" -> "\\t"
      [] c = "\f" -> "\\f"
      [] OTHER -> c

RECURSIVE JsonEscapeAll(_)
JsonEscapeAll(s) ==
    IF Len(s) = 0 THEN ""
    ELSE IF Len(s) = 1 THEN JsonEscape(s)
    ELSE LET h == Len(s) \div 2
         IN  JsonEscapeAll(SubSeq(s, 1, h)) \o JsonEscapeAll(SubSeq(s, h + 1, Len(s)))

JsonString(s) == "\"" \o JsonEscapeAll(s) \o "\""

JsonBool(b) == IF b THEN "true" ELSE "false"

-----------------------------------------------------------------------------
(* The inputs the environment can give *)

\* octets the generated MAC strings are written with
OctetText == <<"AA", "0f", "b7", "3C", "e9", "50", "FF", "1d", "6B">>

\* ways of separating the octets; "mixed" alternates ":" and "-"
SepStyles == {":", "-", "mixed", "", " ", "."}

SepAt(style, i) ==
    IF style = "mixed" THEN (IF i % 2 = 1 THEN ":" ELSE "-") ELSE style

\* n octets, the first being OctetText[start], separated in the given style
RECURSIVE Render(_, _, _, _)
Render(n, start, style, i) ==
    IF i > n THEN ""
    ELSE (IF i > 1 THEN SepAt(style, i - 1) ELSE "")
         \o OctetText[((start + i - 2) % Len(OctetText)) + 1]
         \o Render(n, start, style, i + 1)

WellFormed == {Render(n, st, style, 1) :
                  n \in 0..MaxOctets, st \in 1..2, style \in SepStyles}

\* a string with one character replaced by a non-hex letter, or dropped
Damaged(s) ==
    {SubSeq(s, 1, p - 1) \o "g" \o SubSeq(s, p + 1, Len(s)) : p \in 1..Len(s)}
    \cup {SubSeq(s, 1, p - 1) \o SubSeq(s, p + 1, Len(s)) : p \in 1..Len(s)}

MacInputs == WellFormed \cup UNION {Damaged(s) : s \in WellFormed} \cup {PC_MAC}

\* lines cec-client may print
LineSamples == {
    "opening a connection to the CEC adapter...",
    "power status: on",
    "power status: standby",
    "POWER STATUS: ON",
    "power status: unknown",
    "power status: on power status: standby",
    "Power Status: in transition from on to standby",
    "power status",
    "" }

\* the texts of at most n sample lines, joined by "\n"
RECURSIVE LinesUpTo(_)
LinesUpTo(n) ==
    IF n = 0 THEN {""}
    ELSE IF n = 1 THEN LineSamples
    ELSE LET shorter == LinesUpTo(n - 1)
         IN  shorter \cup {t \o "\n" \o l : t \in shorter, l \in LineSamples}

\* what cec-client may have written: such texts, with or without the final
\* line break, and two texts with other line breaks
CecOutputs ==
    LinesUpTo(MaxLines)
    \cup {t \o "\n" : t \in LinesUpTo(MaxLines)}
    \cup {"...\npower status: on\n", "power status: off\r\npower status: on"}

\* methods for which Handler defines no do_<METHOD>
OtherMethods == {"PUT", "HEAD"}

Paths == {"/tv/status", "/tv/on", "/tv/off", "/wol",
          "/wol?mac=AA:BB:CC:DD:EE:FF", "/tv/status/", "/unknown/path", "/"}

Bodies == {"{}", "{\"mac\": \"11:22:33:44:55:66\"}", "{\"target\": \"desktop\"}"}

\* OSError texts a socket call can fail with
SocketErrors == {"[Errno 13] Permission denied", "[Errno 101] Network is unreachable"}

-----------------------------------------------------------------------------
(* The program's functions *)

\* what cec_send returns when subprocess.run returns
CecCompleted(returncode, out) == <<returncode = 0, Strip(out)>>

CecNotFound == <<FALSE, "cec-client not found">>

CecTimedOut == <<FALSE, "cec-client timed out">>

\* tv_on's return value, from cec_send's
TvOn(r) == <<r[1], IF r[1] THEN "TV turned on" ELSE r[2]>>

\* tv_off's return value, from cec_send's
TvOff(r) == <<r[1], IF r[1] THEN "TV turned off" ELSE r[2]>>

Marker == "power status:"

\* the for loop of tv_status, from line i on
RECURSIVE ScanLines(_, _, _)
ScanLines(lines, i, output) ==
    IF i > Len(lines)
    THEN <<FALSE, "could not parse power status: " \o output>>
    ELSE LET lower == Lower(lines[i])
         IN  IF Contains(lower, Marker)
             THEN (IF Contains(Last(Split(lower, Marker)), "on")
                   THEN <<TRUE, "on">> ELSE <<TRUE, "off">>)
             ELSE ScanLines(lines, i + 1, output)

\* tv_status searching the whole output instead of line by line, so that
\* the last marker of the text decides instead of the first line holding one
TvStatusWholeText(r) ==
    IF ~r[1] THEN <<FALSE, r[2]>>
    ELSE IF Contains(Lower(r[2]), Marker)
    THEN (IF Contains(Last(Split(Lower(r[2]), Marker)), "on")
          THEN <<TRUE, "on">> ELSE <<TRUE, "off">>)
    ELSE <<FALSE, "could not parse power status: " \o r[2]>>

\* tv_status's return value, from cec_send's
TvStatus(r) ==
    IF ~r[1] THEN <<FALSE, r[2]>>
    ELSE ScanLines(SplitLines(r[2]), 1, r[2])

\* the command each TV function sends
CecCommand(h) ==
    CASE h = "tv_on" -> "on " \o CEC_DEVICE
      [] h = "tv_off" -> "standby " \o CEC_DEVICE
      [] h = "tv_status" -> "pow " \o CEC_DEVICE

TvResult(h, r) ==
    CASE h = "tv_on" -> TvOn(r)
      [] h = "tv_off" -> TvOff(r)
      [] h = "tv_status" -> TvStatus(r)

\* mac.replace(":", "").replace("-", "")
StripSeparators(m) == Remove(Remove(m, ":"), "-")

\* mac_bytes of send_wol
MacBytes(m) == FromHex(StripSeparators(m))

\* len(mac_bytes) != 6 written as a lower bound only
BadLengthTooShortOnly(mac_bytes) == Len(mac_bytes) < 6

\* len(mac_bytes) != 6
BadLength(mac_bytes) == Len(mac_bytes) # 6

\* the packet with the address repeated one time too few
MagicPacketShort(mac_bytes) == Repeat(<<255>>, 6) \o Repeat(mac_bytes, 15)

\* b"\xff" * 6 + mac_bytes * 16
MagicPacket(mac_bytes) == Repeat(<<255>>, 6) \o Repeat(mac_bytes, 16)

\* the route table with the /wol entry left out
RoutesWithoutWol ==
    (<<"GET", "/tv/status">> :> "tv_status")
    @@ (<<"POST", "/tv/on">> :> "tv_on")
    @@ (<<"POST", "/tv/off">> :> "tv_off")

ROUTES ==
    (<<"GET", "/tv/status">> :> "tv_status")
    @@ (<<"POST", "/tv/on">> :> "tv_on")
    @@ (<<"POST", "/tv/off">> :> "tv_off")
    @@ (<<"POST", "/wol">> :> "send_wol")

\* a lookup by path alone, whatever the method
RoutesGetAnyMethod(method, path) ==
    IF \E k \in DOMAIN ROUTES : k[2] = path
    THEN ROUTES[CHOOSE k \in DOMAIN ROUTES : k[2] = path]
    ELSE "none"

\* ROUTES.get((method, self.path))
RoutesGet(method, path) ==
    IF <<method, path>> \in DOMAIN ROUTES THEN ROUTES[<<method, path>>] ELSE "none"

\* the status not taken from ok
StatusAlwaysOk(ok) == 200

\* status = 200 if ok else 500
StatusFor(ok) == IF ok THEN 200 ELSE 500

\* json.dumps({"error": "not found"})
NotFoundPayload == "{\"error\": " \o JsonString("not found") \o "}"

\* the result body without its ok member
ResultPayloadNoOk(ok, message) == "{\"message\": " \o JsonString(message) \o "}"

\* json.dumps({"ok": ok, "message": message})
ResultPayload(ok, message) ==
    "{\"ok\": " \o JsonBool(ok) \o ", \"message\": " \o JsonString(message) \o "}"

\* what _respond writes
Response(status, payload) ==
    [status |-> status, ctype |-> "application/json", payload |-> payload]

\* what the base class writes for a method the Handler has no do_ method for
UnsupportedResponse(method) ==
    [status |-> 501, ctype |-> "text/html;charset=utf-8",
     payload |-> "<!DOCTYPE HTML><title>Error response</title>"
                 \o "<p>Message: Unsupported method ('" \o method \o "').</p>"]

-----------------------------------------------------------------------------
(* The state machine *)

NoRequest == [method |-> "", path |-> "", body |-> ""]

NoResult == <<FALSE, "">>

TvHandlers == {"tv_status", "tv_on", "tv_off"}

\* the state when no request is being handled
Quiescent ==
    /\ req = NoRequest
    /\ handler = "none"
    /\ mac = ""
    /\ packet = <<>>
    /\ sock = "none"
    /\ sent = <<>>
    /\ stdin = ""
    /\ launch = "none"
    /\ child = "none"
    /\ launches = 0
    /\ rc = -1
    /\ stdout = ""
    /\ cecResult = NoResult
    /\ result = NoResult
    /\ responses = <<>>
    /\ crashed = FALSE

\* the server after HTTPServer(...) is constructed, in serve_forever
Init == pc = "idle" /\ Quiescent

wolVars == <<mac, packet, sock, sent>>

cecVars == <<stdin, launch, child, launches, rc, stdout, cecResult>>

\* Handler._handle(method) for a request with this path and body
Handle(method, path, body) ==
    LET h == RoutesGet(method, path)
    IN  /\ req' = [method |-> method, path |-> path, body |-> body]
        /\ handler' = h
        /\ IF h = "none"
           THEN /\ responses' = Append(responses, Response(404, NotFoundPayload))
                /\ pc' = "done"
                /\ mac' = mac
           ELSE /\ responses' = responses
                /\ pc' = "call"
                /\ mac' = IF h = "send_wol" THEN PC_MAC ELSE mac
        /\ UNCHANGED <<packet, sock, sent, result, crashed>>
        /\ UNCHANGED cecVars

do_GET ==
    /\ pc = "idle"
    /\ \E path \in Paths : Handle("GET", path, "")

do_POST ==
    /\ pc = "idle"
    /\ \E path \in Paths, body \in Bodies : Handle("POST", path, body)

\* a request whose method the Handler has no do_ method for: the base class
\* answers it and _handle never runs
UnsupportedMethod ==
    /\ pc = "idle"
    /\ \E method \in OtherMethods, path \in Paths, body \in Bodies :
          /\ req' = [method |-> method, path |-> path, body |-> body]
          /\ responses' = Append(responses, UnsupportedResponse(method))
    /\ pc' = "done"
    /\ UNCHANGED <<handler, result, crashed>>
    /\ UNCHANGED wolVars
    /\ UNCHANGED cecVars

\* how subprocess.run's launch of cec-client can go: the child starts, the
\* binary is missing, or the launch fails with another OSError
LaunchOutcomes == {"started", "FileNotFoundError", "PermissionError"}

\* cec_send up to the point where the child runs (or could not be started)
CecLaunch ==
    /\ pc = "call"
    /\ handler \in TvHandlers
    /\ launches' = launches + 1
    /\ stdin' = CecCommand(handler) \o "\n"
    /\ \E outcome \in LaunchOutcomes :
          /\ launch' = outcome
          /\ child' = IF outcome = "started" THEN "running" ELSE child
          /\ cecResult' = IF outcome = "FileNotFoundError" THEN CecNotFound ELSE cecResult
          /\ crashed' = (outcome = "PermissionError")
          /\ pc' = CASE outcome = "started" -> "cec_wait"
                     [] outcome = "FileNotFoundError" -> "cec_ret"
                     [] outcome = "PermissionError" -> "done"
    /\ UNCHANGED <<req, handler, rc, stdout, result, responses>>
    /\ UNCHANGED wolVars

ReturnCodes == {0, 1}

\* the child exits within the timeout and subprocess.run returns
CecExit ==
    /\ pc = "cec_wait"
    /\ \E code \in ReturnCodes, out \in CecOutputs :
          /\ rc' = code
          /\ stdout' = out
          /\ cecResult' = CecCompleted(code, out)
    /\ child' = "exited"
    /\ pc' = "cec_ret"
    /\ UNCHANGED <<req, handler, stdin, launch, launches, result, responses, crashed>>
    /\ UNCHANGED wolVars

\* the timeout expires: subprocess.run kills the child, waits for it and
\* raises TimeoutExpired, which cec_send catches
CecTimeout ==
    /\ pc = "cec_wait"
    /\ child' = "killed"
    /\ launch' = "TimeoutExpired"
    /\ cecResult' = CecTimedOut
    /\ pc' = "cec_ret"
    /\ UNCHANGED <<req, handler, stdin, launches, rc, stdout, result, responses, crashed>>
    /\ UNCHANGED wolVars

\* tv_on, tv_off or tv_status after its cec_send returned
TvReturn ==
    /\ pc = "cec_ret"
    /\ result' = TvResult(handler, cecResult)
    /\ pc' = "respond"
    /\ UNCHANGED <<req, handler, responses, crashed>>
    /\ UNCHANGED wolVars
    /\ UNCHANGED cecVars

\* send_wol up to the packet: decode the MAC, check its length, build
WolEncode ==
    /\ pc = "call"
    /\ handler = "send_wol"
    /\ LET mb == MacBytes(mac)
       IN  IF ~mb.ok
           THEN /\ result' = <<FALSE, ValueErrorText>>
                /\ pc' = "respond"
                /\ packet' = packet
           ELSE IF BadLength(mb.bytes)
           THEN /\ result' = <<FALSE, "invalid MAC address">>
                /\ pc' = "respond"
                /\ packet' = packet
           ELSE /\ result' = result
                /\ pc' = "wol_socket"
                /\ packet' = MagicPacket(mb.bytes)
    /\ UNCHANGED <<req, handler, mac, sock, sent, responses, crashed>>
    /\ UNCHANGED cecVars

\* socket.socket(...) and setsockopt(...): either may raise OSError; the with
\* statement closes a socket that was opened
OpenOutcomes == {<<"ok", "">>} \cup ({"socket", "setsockopt"} \X SocketErrors)

WolOpen ==
    /\ pc = "wol_socket"
    /\ \E outcome \in OpenOutcomes :
          /\ sock' = CASE outcome[1] = "ok" -> "open"
                       [] outcome[1] = "socket" -> "none"
                       [] outcome[1] = "setsockopt" -> "closed"
          /\ result' = IF outcome[1] = "ok" THEN result ELSE <<FALSE, outcome[2]>>
          /\ pc' = IF outcome[1] = "ok" THEN "wol_send" ELSE "respond"
    /\ UNCHANGED <<req, handler, mac, packet, sent, responses, crashed>>
    /\ UNCHANGED cecVars

\* sock.sendto(packet, (PC_BROADCAST, WOL_PORT)), the end of the with block
\* and the return
WolSend ==
    /\ pc = "wol_send"
    /\ \E outcome \in {"ok"} \cup SocketErrors :
          /\ sent' = IF outcome = "ok"
                     THEN Append(sent, [data |-> packet,
                                        addr |-> <<PC_BROADCAST, WOL_PORT>>])
                     ELSE sent
          /\ result' = IF outcome = "ok"
                       THEN <<TRUE, "WoL packet sent to " \o mac>>
                       ELSE <<FALSE, outcome>>
    /\ sock' = "closed"
    /\ pc' = "respond"
    /\ UNCHANGED <<req, handler, mac, packet, responses, crashed>>
    /\ UNCHANGED cecVars

\* the end of _handle: status from ok, then _respond
Respond ==
    /\ pc = "respond"
    /\ req # NoRequest
    /\ responses' = Append(responses,
                           Response(StatusFor(result[1]),
                                    ResultPayload(result[1], result[2])))
    /\ pc' = "done"
    /\ UNCHANGED <<req, handler, result, crashed>>
    /\ UNCHANGED wolVars
    /\ UNCHANGED cecVars

\* the request is over (answered, or ended by an exception the server logs);
\* the server goes on to the next one and nothing of this one is kept
Finish ==
    /\ pc = "done"
    /\ pc' = "idle"
    /\ req' = NoRequest
    /\ handler' = "none"
    /\ mac' = ""
    /\ packet' = <<>>
    /\ sock' = "none"
    /\ sent' = <<>>
    /\ stdin' = ""
    /\ launch' = "none"
    /\ child' = "none"
    /\ launches' = 0
    /\ rc' = -1
    /\ stdout' = ""
    /\ cecResult' = NoResult
    /\ result' = NoResult
    /\ responses' = <<>>
    /\ crashed' = FALSE

Next ==
    \/ do_GET
    \/ do_POST
    \/ UnsupportedMethod
    \/ CecLaunch
    \/ CecExit
    \/ CecTimeout
    \/ TvReturn
    \/ WolEncode
    \/ WolOpen
    \/ WolSend
    \/ Respond
    \/ Finish

Spec == Init /\ [][Next]_vars

\* send_wol called with any MAC string of the bounded input set
InitWol ==
    /\ pc = "call"
    /\ req = NoRequest
    /\ handler = "send_wol"
    /\ mac \in MacInputs
    /\ packet = <<>>
    /\ sock = "none"
    /\ sent = <<>>
    /\ stdin = ""
    /\ launch = "none"
    /\ child = "none"
    /\ launches = 0
    /\ rc = -1
    /\ stdout = ""
    /\ cecResult = NoResult
    /\ result = NoResult
    /\ responses = <<>>
    /\ crashed = FALSE

NextWol ==
    \/ WolEncode
    \/ WolOpen
    \/ WolSend

SpecWol == InitWol /\ [][NextWol]_vars

-----------------------------------------------------------------------------
(* What the claims speak of, stated apart from the program's functions *)

\* six hexadecimal octets separated by colons or hyphens
IsMacString(s) ==
    /\ Len(s) = 17
    /\ \A i \in 1..17 :
          IF i % 3 = 0 THEN CharAt(s, i) \in {":", "-"}
          ELSE IsHexDigit(CharAt(s, i))

\* the address a MAC string denotes, read octet by octet
Address(s) ==
    [i \in 1..6 |-> 16 * HexVal(CharAt(s, 3 * i - 2)) + HexVal(CharAt(s, 3 * i - 1))]

\* the magic packet of a MAC string, byte by byte
ExpectedPacket(s) ==
    [i \in 1..102 |-> IF i <= 6 THEN 255 ELSE Address(s)[((i - 7) % 6) + 1]]

WolDestination == <<"255.255.255.255", 9>>

\* the (method, path) pairs that have a route
RouteTable == {<<"GET", "/tv/status">>, <<"POST", "/tv/on">>,
               <<"POST", "/tv/off">>, <<"POST", "/wol">>}

Matched == req # NoRequest /\ <<req.method, req.path>> \in RouteTable

Unmatched == req # NoRequest /\ <<req.method, req.path>> \notin RouteTable

StartsWith(s, prefix) ==
    Len(s) >= Len(prefix) /\ SubSeq(s, 1, Len(prefix)) = prefix

\* the payload is a JSON object whose first member is a boolean "ok"
HasOkField(payload) ==
    StartsWith(payload, "{\"ok\": true, ") \/ StartsWith(payload, "{\"ok\": false, ")

IsJson(r) == r.ctype = "application/json"

\* C1: for a MAC string of six hex octets separated by colons or hyphens,
\* send_wol's packet is 102 bytes, six 0xFF then the address sixteen times,
\* it is never rejected as invalid, and the one datagram sent (none when a
\* socket call fails) carries exactly that packet to the broadcast address.
C1_MagicPacket ==
    (IsMacString(mac) /\ pc # "call") =>
        /\ Len(packet) = 102
        /\ packet = ExpectedPacket(mac)
        /\ (mac = "AA:BB:CC:DD:EE:FF" =>
               SubSeq(packet, 97, 102) = <<170, 187, 204, 221, 238, 255>>)
        /\ Len(sent) <= 1
        /\ \A i \in 1..Len(sent) :
              sent[i] = [data |-> ExpectedPacket(mac), addr |-> WolDestination]
        /\ (pc = "respond" /\ result[1]) => Len(sent) = 1
        /\ (pc = "respond" /\ ~result[1]) => (result[2] \in SocketErrors /\ sent = <<>>)

C1_Witness ==
    /\ pc = "respond"
    /\ IsMacString(mac)
    /\ CharAt(mac, 3) = "-"
    /\ result[1]
    /\ Len(sent) = 1

\* C2: for a MAC string that does not decode to exactly 6 bytes, send_wol
\* returns a failure with a message, opens no socket and sends no datagram.
C2_InvalidMacNoIO ==
    LET mb == MacBytes(mac)
    IN  ((~mb.ok \/ Len(mb.bytes) # 6) /\ pc # "call") =>
            /\ pc = "respond"
            /\ result[1] = FALSE
            /\ Len(result[2]) > 0
            /\ sock = "none"
            /\ sent = <<>>
            /\ packet = <<>>

C2_Witness ==
    /\ pc = "respond"
    /\ mac = "AA:0f:b7:3C:e9:50:FF"
    /\ result = <<FALSE, "invalid MAC address">>
    /\ sent = <<>>

\* C3: a response to a request that matches a route has status 200 exactly
\* when the route's function returned success and 500 exactly when it
\* returned failure, and its body's ok is that flag.
C3_StatusFollowsResult ==
    Matched =>
        \A i \in 1..Len(responses) :
            LET r == responses[i]
            IN  /\ r.status \in {200, 500}
                /\ (r.status = 200) <=> result[1]
                /\ (r.status = 500) <=> ~result[1]
                /\ IsJson(r)
                /\ result[1] => StartsWith(r.payload, "{\"ok\": true, ")
                /\ ~result[1] => StartsWith(r.payload, "{\"ok\": false, ")

C3_Witness ==
    /\ Matched
    /\ handler = "tv_off"
    /\ Len(responses) = 1
    /\ responses[1].status = 500
    /\ rc = 1

NoAction == launches = 0 /\ child = "none" /\ sock = "none" /\ sent = <<>>

NotFoundAnswer ==
    /\ Len(responses) = 1
    /\ responses[1].status = 404
    /\ IsJson(responses[1])
    /\ responses[1].payload = "{\"error\": \"not found\"}"

\* C4 as stated: every request whose (method, path) is not in the route
\* table gets 404 with {"error": "not found"} and performs no action.
C4_Original == (pc = "done" /\ Unmatched) => (NotFoundAnswer /\ NoAction)

\* C4 amended: every GET or POST request whose (method, path) is not in the
\* route table gets 404 with {"error": "not found"}; no unmatched request,
\* of any method, performs an action.
C4_Amended ==
    (pc = "done" /\ Unmatched) =>
        /\ NoAction
        /\ req.method \in {"GET", "POST"} => NotFoundAnswer

C4_Witness ==
    /\ pc = "done"
    /\ req.method = "POST"
    /\ req.path = "/wol?mac=AA:BB:CC:DD:EE:FF"
    /\ NotFoundAnswer
    /\ NoAction

IsPostWol == req # NoRequest /\ req.method = "POST" /\ req.path = "/wol"

HasNeitherKey(body) == ~Contains(body, "\"target\"") /\ ~Contains(body, "\"mac\"")

MarkerLines(out) ==
    {i \in 1..Len(SplitLines(out)) : Contains(Lower(SplitLines(out)[i]), "power status:")}

\* the text of a lower-cased line after its last "power status:"
AfterMarker(line) ==
    LET at == {p \in 1..(Len(line) - 12) : SubSeq(line, p, p + 12) = "power status:"}
        last == CHOOSE p \in at : \A q \in at : q <= p
    IN  SubSeq(line, last + 13, Len(line))

\* C6: when the 'pow' call succeeds, the first line of the captured output
\* that holds 'power status:' (in any case) decides: 'on' when the text
\* after the marker holds 'on', else 'off'; with no such line tv_status
\* fails with a message that holds the whole captured output.
C6_PowerStatusParse ==
    (handler = "tv_status" /\ pc \in {"respond", "done"} /\ cecResult[1]) =>
        LET out == cecResult[2]
            hits == MarkerLines(out)
        IN  /\ out = Strip(stdout)
            /\ IF hits = {}
               THEN /\ result[1] = FALSE
                    /\ Contains(result[2], out)
                    /\ Len(result[2]) > Len(out)
               ELSE LET first == CHOOSE i \in hits : \A j \in hits : i <= j
                        after == AfterMarker(Lower(SplitLines(out)[first]))
                    IN  result = IF Contains(after, "on")
                                 THEN <<TRUE, "on">> ELSE <<TRUE, "off">>
            /\ stdout = "...\npower status: on\n" => result = <<TRUE, "on">>
            /\ stdout = "power status: standby" => result = <<TRUE, "off">>
            /\ stdout = "POWER STATUS: ON" => result = <<TRUE, "on">>
            /\ stdout = "power status" => result[1] = FALSE

C6_Witness ==
    /\ handler = "tv_status"
    /\ pc = "respond"
    /\ cecResult[1]
    /\ stdout = "power status: standby\npower status: on"
    /\ result = <<TRUE, "off">>

\* C7 as stated: every response has a JSON body with a boolean 'ok'.
C7_Original ==
    \A i \in 1..Len(responses) :
        IsJson(responses[i]) /\ HasOkField(responses[i].payload)

\* C7 amended: every response to a request whose (method, path) matches a
\* route has a JSON body with a boolean 'ok'; the 404 answer to an unmatched
\* GET or POST is {"error": "not found"}, without 'ok'.
C7_Amended ==
    \A i \in 1..Len(responses) :
        /\ Matched => (IsJson(responses[i]) /\ HasOkField(responses[i].payload))
        /\ responses[i].status = 404 =>
              (Unmatched /\ ~HasOkField(responses[i].payload))

C7_Witness ==
    /\ Matched
    /\ handler = "tv_status"
    /\ cecResult[1]
    /\ Len(responses) = 1
    /\ StartsWith(responses[1].payload, "{\"ok\": false, ")

\* cec_send is over: it returned or an exception left it
CecSendOver == launches > 0 /\ pc \in {"cec_ret", "respond", "done"}

\* C8 as stated: cec_send ends in one of three kinds of outcome: exit code
\* zero, success with the trimmed stdout; non-zero exit, failure with that
\* stdout; missing binary or timeout, failure with the fixed message, and
\* after a timeout the child is not left running.
C8_ThreeOutcomes ==
    CecSendOver =>
        \/ child = "exited" /\ rc = 0 /\ cecResult = <<TRUE, Strip(stdout)>>
        \/ child = "exited" /\ rc # 0 /\ cecResult = <<FALSE, Strip(stdout)>>
        \/ launch = "FileNotFoundError" /\ child = "none"
              /\ cecResult = <<FALSE, "cec-client not found">>
        \/ launch = "TimeoutExpired" /\ child = "killed"
              /\ cecResult = <<FALSE, "cec-client timed out">>

\* C9 as stated: whatever the subprocess launch or the socket send does, no
\* exception escapes and the handler writes a JSON response with a status
\* and a message.
C9_NoEscape ==
    (pc = "done" /\ Matched) =>
        /\ ~crashed
        /\ Len(responses) = 1
        /\ IsJson(responses[1])
        /\ responses[1].status \in {200, 500}
        /\ Contains(responses[1].payload, "\"message\": ")

\* C10 as stated: a request performs at most one external action, a matched
\* TV route launches the subprocess exactly once, POST /wol sends at most
\* one datagram, and exactly one response is written per request.
C10_OnceEach ==
    (pc = "done") =>
        /\ launches <= 1
        /\ Len(sent) <= 1
        /\ launches + Len(sent) <= 1
        /\ handler \in TvHandlers => launches = 1
        /\ Len(responses) = 1

=============================================================================
